---- MODULE Spec2Model ----
(***************************************************************************)
(* Model of .github/scripts/fetch_and_push.py: the daily digest script.    *)
(* main() calls get_recent_stories(), joins the lines into a message and   *)
(* hands it to send_to_wechat(), which POSTs it to the ServerChan gateway. *)
(*                                                                         *)
(* Text is modelled as a sequence of one-character strings.  Time is an    *)
(* integer number of seconds.                                              *)
(***************************************************************************)
EXTENDS Integers, Sequences, FiniteSets, TLC

VARIABLES
    pc,             \* position of the script
    feed,           \* what feedparser.parse produced
    idx,            \* position of the for loop over feed.entries
    recent_titles,  \* the list the loop builds
    stories,        \* return value of get_recent_stories
    message,        \* argument of send_to_wechat
    sendkey,        \* os.getenv("SERVER_CHAN_SENDKEY")
    desp,           \* data["desp"] of the request
    posts,          \* number of requests.post calls made
    wire,           \* the 'desp' bodies that went out, in order
    outcome,        \* what requests.post produced
    ret,            \* return value of send_to_wechat
    raised,         \* the exception that escaped, and from where
    log,            \* last line main printed
    exitStatus      \* exit status of the process

vars == <<pc, feed, idx, recent_titles, stories, message, sendkey, desp,
          posts, wire, outcome, ret, raised, log, exitStatus>>

----------------------------------------------------------------------------
(* Bounds of the model *)

MaxEntries == 3     \* longest feed
MaxMsgLen == 3      \* longest message handed directly to send_to_wechat
UtcNow == 200000    \* datetime.now(timezone.utc), in seconds

(* Program constants *)

WindowSeconds == 86400   \* timedelta(hours=24)
TitleCap == 100          \* title[:100] / len(title) > 100

----------------------------------------------------------------------------
(* Text helpers *)

Whitespace == {" ", "\n", "\t"}

RECURSIVE LStrip(_)
LStrip(s) ==
    IF s = <<>> THEN <<>>
    ELSE IF Head(s) \in Whitespace THEN LStrip(Tail(s)) ELSE s

RECURSIVE RStrip(_)
RStrip(s) ==
    IF s = <<>> THEN <<>>
    ELSE IF s[Len(s)] \in Whitespace THEN RStrip(SubSeq(s, 1, Len(s) - 1)) ELSE s

\* str.strip()
Strip(s) == RStrip(LStrip(s))

RECURSIVE Join(_, _)
\* sep.join(lines)
Join(lines, sep) ==
    IF lines = <<>> THEN <<>>
    ELSE IF Len(lines) = 1 THEN lines[1]
    ELSE lines[1] \o sep \o Join(Tail(lines), sep)

\* The fixed text sent when there is nothing to report: one element per
\* character of the twelve-character literal (eleven syllables and the
\* closing full stop), none of them whitespace.
Placeholder ==
    <<"jin", "ri", "zan", "wu", "geng", "xin", "de", "ke", "ji", "zi", "xun", "stop">>

----------------------------------------------------------------------------
(* The feed: what feedparser.parse can hand back *)

\* A title of n characters; neighbouring characters differ.
TitleOfLen(n) == [i \in 1..n |-> IF i % 2 = 1 THEN "a" ELSE "b"]

Present(text) == [present |-> TRUE, text |-> text]
Missing == [present |-> FALSE, text |-> <<>>]

NoTime == [kind |-> "absent", t |-> 0]        \* published_parsed missing or None
BadTime == [kind |-> "malformed", t |-> 0]    \* a tuple datetime() rejects
At(t) == [kind |-> "valid", t |-> t]

\* utc_now - timedelta(hours=24)
twenty_four_hours_ago == UtcNow - WindowSeconds

StaleTime == twenty_four_hours_ago - 1    \* one second too old
EdgeTime == twenty_four_hours_ago         \* exactly 24 hours old
FreshTime == UtcNow - 3600                \* an hour old

ShortTitle == <<"H", "N">>
LinkX == <<"u", "/", "x">>
LinkY == <<"u", "/", "y">>

Entry(title, link, published) ==
    [title |-> title, link |-> link, published |-> published]

Entries ==
    { Entry(Present(ShortTitle), Present(LinkX), p) :
          p \in {NoTime, At(StaleTime), At(EdgeTime), At(FreshTime)} }
    \cup { Entry(Present(TitleOfLen(n)), Present(LinkY), p) :
          n \in {TitleCap, TitleCap + 1}, p \in {NoTime, At(StaleTime), At(FreshTime)} }
    \cup { Entry(Missing, Present(LinkX), At(FreshTime)),
           Entry(Present(ShortTitle), Missing, At(FreshTime)),
           Entry(Present(ShortTitle), Present(LinkX), BadTime) }

RECURSIVE SeqsUpTo(_, _)
SeqsUpTo(S, n) ==
    IF n = 0 THEN {<<>>}
    ELSE LET shorter == SeqsUpTo(S, n - 1)
         IN  shorter \cup { Append(q, e) : q \in {r \in shorter : Len(r) = n - 1}, e \in S }

Feeds == SeqsUpTo(Entries, MaxEntries)

NoFeed == [ok |-> FALSE, entries |-> <<>>]
ParsedFeed(entries) == [ok |-> TRUE, entries |-> entries]

----------------------------------------------------------------------------
(* get_recent_stories *)

\* the comparison taken one second too early
IsRecentOffByOne(entry_time) == entry_time >= twenty_four_hours_ago - 1

\* entry_time >= twenty_four_hours_ago
IsRecent(entry_time) == entry_time >= twenty_four_hours_ago

\* the cut applied from 100 characters on, instead of above 100
TruncatedTitleInclusive(title) ==
    IF Len(title) >= TitleCap
    THEN SubSeq(title, 1, TitleCap) \o <<".", ".", ".">>
    ELSE title

\* f"{title[:100]}..." if len(title) > 100 else title
TruncatedTitle(title) ==
    IF Len(title) > TitleCap
    THEN SubSeq(title, 1, TitleCap) \o <<".", ".", ".">>
    ELSE title

\* f"- [{truncated_title}]({link})"
FormatLine(title, link) ==
    <<"-", " ", "[">> \o TruncatedTitle(title) \o <<"]", "(">> \o link \o <<")">>

NoException == [type |-> "none", in |-> "none"]
Exception(type, in) == [type |-> type, in |-> in]

\* feedparser.parse raises: the except clause returns [].
FetchFails ==
    /\ pc = "main"
    /\ pc' = "fetched"
    /\ stories' = <<>>
    /\ UNCHANGED <<feed, idx, recent_titles, message, sendkey, desp, posts,
                   wire, outcome, ret, raised, log, exitStatus>>

\* feedparser.parse returns a feed; without entries the function returns [].
Fetch ==
    /\ pc = "main"
    /\ \E f \in Feeds :
          /\ feed' = ParsedFeed(f)
          /\ IF f = <<>>
             THEN pc' = "fetched" /\ idx' = idx
             ELSE pc' = "scan" /\ idx' = 1
    /\ recent_titles' = <<>>
    /\ stories' = <<>>
    /\ UNCHANGED <<message, sendkey, desp, posts, wire, outcome, ret, raised,
                   log, exitStatus>>

InLoop == pc = "scan" /\ idx <= Len(feed.entries)
entry == feed.entries[idx]

\* an entry without a timestamp ending the loop, instead of being passed over
ScanSkipStops ==
    /\ InLoop
    /\ entry.published.kind = "absent"
    /\ pc' = "fetched"
    /\ stories' = recent_titles
    /\ UNCHANGED <<feed, idx, recent_titles, message, sendkey, desp, posts,
                   wire, outcome, ret, raised, log, exitStatus>>

\* "if published_parsed: ... else: continue"
ScanSkip ==
    /\ InLoop
    /\ entry.published.kind = "absent"
    /\ idx' = idx + 1
    /\ UNCHANGED <<pc, feed, recent_titles, stories, message, sendkey, desp,
                   posts, wire, outcome, ret, raised, log, exitStatus>>

\* datetime(*published_parsed[:6]) rejects the tuple: nothing catches it.
ScanBadTime ==
    /\ InLoop
    /\ entry.published.kind = "malformed"
    /\ pc' = "crashed"
    /\ raised' = Exception("ValueError", "get_recent_stories")
    /\ UNCHANGED <<feed, idx, recent_titles, stories, message, sendkey, desp,
                   posts, wire, outcome, ret, log, exitStatus>>

\* entry.title or entry.link is missing: feedparser raises AttributeError.
ScanMissingField ==
    /\ InLoop
    /\ entry.published.kind = "valid"
    /\ IsRecent(entry.published.t)
    /\ ~entry.title.present \/ ~entry.link.present
    /\ pc' = "crashed"
    /\ raised' = Exception("AttributeError", "get_recent_stories")
    /\ UNCHANGED <<feed, idx, recent_titles, stories, message, sendkey, desp,
                   posts, wire, outcome, ret, log, exitStatus>>

\* The entry is within the window: one line is appended.
ScanAppend ==
    /\ InLoop
    /\ entry.published.kind = "valid"
    /\ IsRecent(entry.published.t)
    /\ entry.title.present /\ entry.link.present
    /\ recent_titles' = Append(recent_titles, FormatLine(entry.title.text, entry.link.text))
    /\ idx' = idx + 1
    /\ UNCHANGED <<pc, feed, stories, message, sendkey, desp, posts, wire,
                   outcome, ret, raised, log, exitStatus>>

\* a stale entry passed over, the loop going on to the next one
ScanBreakContinues ==
    /\ InLoop
    /\ entry.published.kind = "valid"
    /\ ~IsRecent(entry.published.t)
    /\ entry.published.t < twenty_four_hours_ago
    /\ idx' = idx + 1
    /\ UNCHANGED <<pc, feed, recent_titles, stories, message, sendkey, desp,
                   posts, wire, outcome, ret, raised, log, exitStatus>>

\* "elif entry_time < twenty_four_hours_ago: break", then the return.
ScanBreak ==
    /\ InLoop
    /\ entry.published.kind = "valid"
    /\ ~IsRecent(entry.published.t)
    /\ entry.published.t < twenty_four_hours_ago
    /\ pc' = "fetched"
    /\ stories' = recent_titles
    /\ UNCHANGED <<feed, idx, recent_titles, message, sendkey, desp, posts,
                   wire, outcome, ret, raised, log, exitStatus>>

\* The loop ran off the end of feed.entries: return recent_titles.
ScanEnd ==
    /\ pc = "scan"
    /\ idx > Len(feed.entries)
    /\ pc' = "fetched"
    /\ stories' = recent_titles
    /\ UNCHANGED <<feed, idx, recent_titles, message, sendkey, desp, posts,
                   wire, outcome, ret, raised, log, exitStatus>>

----------------------------------------------------------------------------
(* The environment of send_to_wechat *)

Unset == [set |-> FALSE, value |-> <<>>]
SetTo(v) == [set |-> TRUE, value |-> v]

\* what os.getenv("SERVER_CHAN_SENDKEY") can give
EnvValues == {Unset, SetTo(<<>>), SetTo(<<"S", "C", "T">>)}

Code(type, val) == [type |-> type, val |-> val]
NoCode == Code("absent", 0)

\* the values of the 'code' member of a JSON object
CodeValues == {NoCode, Code("int", 0), Code("int", 1), Code("str", 0), Code("bool", 0)}

Body(kind, code) == [kind |-> kind, code |-> code]

\* response bodies: not JSON at all, a JSON object, a JSON array, a JSON number
Bodies ==
    {Body("text", NoCode), Body("array", NoCode), Body("number", NoCode)}
    \cup {Body("object", c) : c \in CodeValues}

Response(status, body) == [exc |-> "none", status |-> status, body |-> body]
Failure(exc) == [exc |-> exc, status |-> 0, body |-> Body("none", NoCode)]

\* what requests.post(url, data=data, timeout=30) can produce
PostOutcomes ==
    {Failure("Timeout"), Failure("ConnectionError")}
    \cup {Response(st, b) : st \in {200, 304}, b \in Bodies}
    \cup {Response(st, b) : st \in {404, 500},
                            b \in {Body("text", NoCode), Body("object", Code("int", 0))}}

\* the messages a caller can hand to send_to_wechat directly
Messages == SeqsUpTo({" ", "\n", "x"}, MaxMsgLen)

----------------------------------------------------------------------------
(* main: building the message *)

\* "\n".join(recent_stories) if recent_stories else ""
MessageOf(recent_stories) ==
    IF recent_stories # <<>> THEN Join(recent_stories, <<"\n">>) ELSE <<>>

Assemble ==
    /\ pc = "fetched"
    /\ message' = MessageOf(stories)
    /\ pc' = "send"
    /\ UNCHANGED <<feed, idx, recent_titles, stories, sendkey, desp, posts,
                   wire, outcome, ret, raised, log, exitStatus>>

----------------------------------------------------------------------------
(* send_to_wechat *)

\* the test written "if sendkey is None"
KeyMissingNoneOnly(k) == ~k.set

\* "if not sendkey": None and the empty string are both false
KeyMissing(k) == ~k.set \/ k.value = <<>>

\* the test written "if not message", without strip()
DespEmptyOnly(m) == IF m = <<>> THEN Placeholder ELSE m

\* "if not message.strip(): message = <placeholder>"
Desp(m) == IF Strip(m) = <<>> THEN Placeholder ELSE m

\* a second attempt after a transport failure
AttemptsWithRetry(o) == IF o.exc # "none" THEN 2 ELSE 1

\* the try block calls requests.post once, whatever comes of it
Attempts(o) == 1

\* response.raise_for_status(): an HTTPError for 4xx and 5xx
RaisesForStatus(status) == 400 <= status /\ status < 600

\* result_json.get("code") == 0, with Python's equality (False == 0)
CodeIsZero(c) == c.type \in {"int", "bool"} /\ c.val = 0

SendNoKey ==
    /\ pc = "send"
    /\ \E k \in EnvValues :
          /\ KeyMissing(k)
          /\ sendkey' = k
    /\ ret' = FALSE
    /\ pc' = "returned"
    /\ UNCHANGED <<feed, idx, recent_titles, stories, message, desp, posts,
                   wire, outcome, raised, log, exitStatus>>

SendPrepare ==
    /\ pc = "send"
    /\ \E k \in EnvValues :
          /\ ~KeyMissing(k)
          /\ sendkey' = k
    /\ desp' = Desp(message)
    /\ pc' = "post"
    /\ UNCHANGED <<feed, idx, recent_titles, stories, message, posts, wire,
                   outcome, ret, raised, log, exitStatus>>

\* requests.post is called and produces o
Posted(o) ==
    /\ pc = "post"
    /\ outcome' = o
    /\ posts' = posts + Attempts(o)
    /\ wire' = wire \o [i \in 1..Attempts(o) |-> desp]

Returns(value) ==
    /\ ret' = value
    /\ pc' = "returned"
    /\ UNCHANGED <<feed, idx, recent_titles, stories, message, sendkey, desp,
                   raised, log, exitStatus>>

\* except requests.exceptions.Timeout
PostTimeout ==
    /\ Posted(Failure("Timeout"))
    /\ Returns(FALSE)

\* except requests.exceptions.RequestException: a connection error, or the
\* HTTPError of raise_for_status
PostRequestException ==
    /\ \E o \in PostOutcomes :
          /\ o.exc = "ConnectionError" \/ (o.exc = "none" /\ RaisesForStatus(o.status))
          /\ Posted(o)
    /\ Returns(FALSE)

\* response.json() raises: the decode error is a ValueError (and, in newer
\* releases of requests, a RequestException as well); either clause returns False
PostNotJson ==
    /\ \E o \in PostOutcomes :
          /\ o.exc = "none" /\ ~RaisesForStatus(o.status)
          /\ o.body.kind = "text"
          /\ Posted(o)
    /\ Returns(FALSE)

\* the body is a JSON object: the 'code' member decides
PostAnswered ==
    /\ \E o \in PostOutcomes :
          /\ o.exc = "none" /\ ~RaisesForStatus(o.status)
          /\ o.body.kind = "object"
          /\ Posted(o)
          /\ Returns(CodeIsZero(o.body.code))

\* the body is JSON but not an object: result_json.get raises AttributeError,
\* which no except clause names
PostNotObject ==
    /\ \E o \in PostOutcomes :
          /\ o.exc = "none" /\ ~RaisesForStatus(o.status)
          /\ o.body.kind \in {"array", "number"}
          /\ Posted(o)
    /\ pc' = "crashed"
    /\ raised' = Exception("AttributeError", "send_to_wechat")
    /\ UNCHANGED <<feed, idx, recent_titles, stories, message, sendkey, desp,
                   ret, log, exitStatus>>

----------------------------------------------------------------------------
(* main: the end of the run *)

\* "exit(1)" restored in the failure branch
ExitStatusOnFailure(success) == IF success THEN 0 ELSE 1

\* main returns after printing; "exit(1)" is commented out
ExitStatusOf(success) == 0

MainFinish ==
    /\ pc = "returned"
    /\ log' = IF ret THEN "Process completed successfully." ELSE "Process failed."
    /\ exitStatus' = ExitStatusOf(ret)
    /\ pc' = "exited"
    /\ UNCHANGED <<feed, idx, recent_titles, stories, message, sendkey, desp,
                   posts, wire, outcome, ret, raised>>

\* an exception nothing caught ends the interpreter with a traceback and status 1
Uncaught ==
    /\ pc = "crashed"
    /\ log' = "Traceback (most recent call last):"
    /\ exitStatus' = 1
    /\ pc' = "exited"
    /\ UNCHANGED <<feed, idx, recent_titles, stories, message, sendkey, desp,
                   posts, wire, outcome, ret, raised>>

----------------------------------------------------------------------------
(* The script, run from main *)

Init ==
    /\ pc = "main"
    /\ feed = NoFeed
    /\ idx = 0
    /\ recent_titles = <<>>
    /\ stories = <<>>
    /\ message = <<>>
    /\ sendkey = Unset
    /\ desp = <<>>
    /\ posts = 0
    /\ wire = <<>>
    /\ outcome = Failure("none")
    /\ ret = FALSE
    /\ raised = NoException
    /\ log = "Starting daily tech news fetch process..."
    /\ exitStatus = -1

Next ==
    \/ FetchFails
    \/ Fetch
    \/ ScanSkip
    \/ ScanBadTime
    \/ ScanMissingField
    \/ ScanAppend
    \/ ScanBreak
    \/ ScanEnd
    \/ Assemble
    \/ SendNoKey
    \/ SendPrepare
    \/ PostTimeout
    \/ PostRequestException
    \/ PostNotJson
    \/ PostAnswered
    \/ PostNotObject
    \/ MainFinish
    \/ Uncaught

Spec == Init /\ [][Next]_vars

(* send_to_wechat called on its own with any message *)

InitSend ==
    /\ pc = "send"
    /\ message \in Messages
    /\ feed = NoFeed
    /\ idx = 0
    /\ recent_titles = <<>>
    /\ stories = <<>>
    /\ sendkey = Unset
    /\ desp = <<>>
    /\ posts = 0
    /\ wire = <<>>
    /\ outcome = Failure("none")
    /\ ret = FALSE
    /\ raised = NoException
    /\ log = ""
    /\ exitStatus = -1

NextSend ==
    \/ SendNoKey
    \/ SendPrepare
    \/ PostTimeout
    \/ PostRequestException
    \/ PostNotJson
    \/ PostAnswered
    \/ PostNotObject

SpecSend == InitSend /\ [][NextSend]_vars

----------------------------------------------------------------------------
(* Vocabulary of the properties *)

\* get_recent_stories has returned its list
GotStories ==
    \/ pc \in {"fetched", "send", "post", "returned"}
    \/ pc \in {"crashed", "exited"} /\ raised.in # "get_recent_stories"

\* send_to_wechat has returned a value
SendReturned == pc = "returned" \/ (pc = "exited" /\ raised.type = "none")

\* send_to_wechat is over, by a return or by an exception
SendFinished == SendReturned \/ raised.in = "send_to_wechat"

\* send_to_wechat has read the credential
KeyRead == pc = "post" \/ SendFinished

KeyAbsent == sendkey = Unset \/ sendkey = SetTo(<<>>)

AllWhitespace(m) == \A i \in 1..Len(m) : m[i] \in {" ", "\n", "\t"}

Timestamped(e) == e.published.kind = "valid"
Stale(e) == Timestamped(e) /\ e.published.t < UtcNow - WindowSeconds
Fresh(e) == Timestamped(e) /\ e.published.t >= UtcNow - WindowSeconds
Complete(e) == e.title.present /\ e.link.present

\* position of the first stale entry, or one past the end
FirstStale(es) ==
    IF \E i \in 1..Len(es) : Stale(es[i])
    THEN CHOOSE i \in 1..Len(es) : Stale(es[i]) /\ \A j \in 1..(i - 1) : ~Stale(es[j])
    ELSE Len(es) + 1

Lines(es) == [i \in 1..Len(es) |-> FormatLine(es[i].title.text, es[i].link.text)]

----------------------------------------------------------------------------
(* Properties *)

\* C1: when SERVER_CHAN_SENDKEY is unset or empty, send_to_wechat returns
\* False for every message and no POST is issued at any point of the call.
C1_NoKeyNoPost ==
    (KeyRead /\ KeyAbsent) =>
        /\ posts = 0
        /\ wire = <<>>
        /\ SendFinished => (SendReturned /\ ret = FALSE)

C1_Witness ==
    /\ pc = "returned"
    /\ sendkey = SetTo(<<>>)
    /\ message = <<"x">>
    /\ ret = FALSE
    /\ posts = 0

\* C2: with the credential present every call of send_to_wechat issues
\* exactly one POST, and whatever the outcome no further POST follows: a run
\* of main never makes more than one.
C2_AtMostOnePost ==
    /\ posts <= 1
    /\ Len(wire) = posts
    /\ (SendFinished /\ ~KeyAbsent) => posts = 1

C2_Witness ==
    /\ pc = "exited"
    /\ outcome = Failure("Timeout")
    /\ ret = FALSE
    /\ posts = 1

\* C3: the 'desp' field of every POST is neither empty nor whitespace-only;
\* it is the placeholder when the message is empty or whitespace-only, and
\* the message unchanged otherwise.
C3_DespNeverBlank ==
    \A i \in 1..Len(wire) :
        /\ wire[i] # <<>>
        /\ ~AllWhitespace(wire[i])
        /\ wire[i] = IF AllWhitespace(message) THEN Placeholder ELSE message

C3_Witness ==
    /\ message = <<" ", "\n">>
    /\ wire = <<Placeholder>>

\* C4: with the credential present send_to_wechat returns True exactly when
\* the exchange ended with a 2xx status, the body parsed as JSON and its
\* 'code' is 0; every other outcome returns False.
C4_SuccessIff ==
    (SendFinished /\ ~KeyAbsent) =>
        /\ SendReturned
        /\ ret = ( /\ outcome.exc = "none"
                   /\ outcome.status \in 200..299
                   /\ outcome.body.kind = "object"
                   /\ outcome.body.code = Code("int", 0) )

\* C5: no exception escapes get_recent_stories, send_to_wechat or main,
\* whatever the feed holds and whatever the gateway answers.
C5_NothingEscapes == pc # "crashed" /\ raised = NoException

\* C6, as stated: the exit status says success exactly when send_to_wechat
\* returned True, and failure when it returned False.
C6_ExitReflectsDelivery ==
    (pc = "exited" /\ raised = NoException) => (exitStatus = 0 <=> ret = TRUE)

\* C6, amended: when send_to_wechat returns, the last line main prints
\* reflects the delivery, and the exit status is 0 whatever the result.
C6_LogReflectsDelivery ==
    (pc = "exited" /\ raised = NoException) =>
        /\ exitStatus = 0
        /\ log = "Process completed successfully." <=> ret = TRUE
        /\ log = "Process failed." <=> ret = FALSE

C6_Witness ==
    /\ pc = "exited"
    /\ raised = NoException
    /\ posts = 1
    /\ ret = FALSE
    /\ exitStatus = 0

\* C7: the scan ends at the first entry older than the cutoff: the list
\* get_recent_stories returns holds, in feed order, the lines of the
\* timestamped in-window entries before that entry and nothing from after it.
C7_StopsAtFirstStale ==
    (GotStories /\ feed.ok /\ FirstStale(feed.entries) <= Len(feed.entries)) =>
        stories = Lines(SelectSeq(SubSeq(feed.entries, 1, FirstStale(feed.entries) - 1), Fresh))

C7_Witness ==
    /\ GotStories
    /\ Len(feed.entries) = 3
    /\ Fresh(feed.entries[1])
    /\ Stale(feed.entries[2])
    /\ Fresh(feed.entries[3])
    /\ Len(stories) = 1

\* C8: a feed of N entries, each with a title, a link and a timestamp at or
\* after the cutoff, gives exactly N lines, the i-th "- [title](link)" of the
\* i-th entry, the title cut to its first 100 characters plus "..." when it is
\* longer than 100 and unchanged otherwise (so never longer than 103).
C8_AllRecentAllListed ==
    ( /\ pc \notin {"main", "scan"}
      /\ feed.ok
      /\ \A i \in 1..Len(feed.entries) : Fresh(feed.entries[i]) /\ Complete(feed.entries[i]) ) =>
        /\ GotStories
        /\ Len(stories) = Len(feed.entries)
        /\ \A i \in 1..Len(feed.entries) :
              LET title == feed.entries[i].title.text
                  shown == IF Len(title) <= 100
                           THEN title
                           ELSE SubSeq(title, 1, 100) \o <<".", ".", ".">>
              IN  /\ Len(shown) <= 103
                  /\ stories[i] = <<"-", " ", "[">> \o shown \o <<"]", "(">>
                                      \o feed.entries[i].link.text \o <<")">>

C8_Witness ==
    /\ GotStories
    /\ Len(feed.entries) = 3
    /\ Len(stories) = 3
    /\ Len(feed.entries[1].title.text) = 101
    /\ Len(feed.entries[2].title.text) = 100
    /\ Len(feed.entries[3].title.text) = 2

\* C9: when every entry of the feed is older than the cutoff,
\* get_recent_stories returns the empty list and, with the credential
\* present, the body POSTed is the placeholder.
C9_OnlyStaleGivesPlaceholder ==
    (feed.ok /\ \A i \in 1..Len(feed.entries) : Stale(feed.entries[i])) =>
        /\ pc \notin {"main", "scan"} => (GotStories /\ stories = <<>>)
        /\ (SendFinished /\ ~KeyAbsent) => wire = <<Placeholder>>

C9_Witness ==
    /\ Len(feed.entries) = 2
    /\ \A i \in 1..Len(feed.entries) : Stale(feed.entries[i])
    /\ stories = <<>>
    /\ SendFinished
    /\ wire = <<Placeholder>>

\* C10: an entry without a published timestamp gives no line and does not
\* end the scan: the list returned holds the lines of the timestamped
\* entries up to the first stale one, those after a timestamp-less entry
\* included.
C10_UntimedSkipped ==
    (GotStories /\ feed.ok) =>
        stories = Lines(SelectSeq(SubSeq(feed.entries, 1, FirstStale(feed.entries) - 1), Timestamped))

C10_Witness ==
    /\ GotStories
    /\ Len(feed.entries) = 3
    /\ ~Timestamped(feed.entries[1])
    /\ ~Timestamped(feed.entries[2])
    /\ Fresh(feed.entries[3])
    /\ stories = Lines(<<feed.entries[3]>>)

====
